---- MODULE Spec2Model ----
(***************************************************************************)
(* DatabaseVideoRecommender (src/database_algorithm.py): an in-memory      *)
(* recommender (self.videos, self.user_profiles) that writes through to    *)
(* five SQLite tables.  Every handler opens its own connection, executes   *)
(* one statement and commits, so each statement is its own transaction;    *)
(* a statement may raise (storage failure), which ends the handler there.  *)
(***************************************************************************)
EXTENDS Integers, Sequences, FiniteSets, TLC

VARIABLES
    videos,               \* self.videos: list of Video
    user_profiles,        \* self.user_profiles: dict user_id -> profile
    db_videos,            \* table videos, rows in rowid order
    db_user_profiles,     \* table user_profiles, rows in rowid order
    watch_history,        \* table watch_history, rows in id order
    liked_videos,         \* table liked_videos, rows in id order
    recommendation_logs,  \* table recommendation_logs, rows in id order
    clock,                \* the tick of the wall clock the next handler call sees
    window_start,         \* the stamp date('now', '-30 days') stands for at present
    lastCall,             \* the call that ended last: its arguments and outcome
    other,                \* a second handle on the same file: open, videos, user_profiles
    pending               \* per handle, the call that has yet to run update_video_stats

vars == <<videos, user_profiles, db_videos, db_user_profiles, watch_history,
          liked_videos, recommendation_logs, clock, window_start, lastCall,
          other, pending>>

(***************************************************************************)
(* Bounds of the model and the inputs the handlers are called with.        *)
(***************************************************************************)
ServeTicks == 2           \* ticks of the clock in a run of Spec
ProfileTicks == 4         \* ... of ProfileSpec
ReloadTicks == 2          \* ... of ReloadSpec
CatalogTicks == 2         \* ... of CatalogSpec
EffectTicks == 3          \* ... of EffectSpec
RankTicks == 2            \* ... of RankSpec
OverlapTicks == 4         \* ... of OverlapSpec
FailTicks == 2            \* ... of FailSpec
HandleTicks == 3          \* ... of HandlesSpec, after the set-up
MaxHistory == 3           \* longest in-memory history or like list a reload may leave

None == << >>                              \* Python None; a rating is None or <<stars>>
PrefsA == <<<<"education", "0.8">>, <<"technology", "0.6">>>>
PrefsB == <<<<"education", "0.9">>, <<"science", "0.5">>>>
PrefDocs == {PrefsA, PrefsB}
RecTypes == {"personalized", "trending"}   \* tags a caller may ask for

\* Video(id, ..., views, likes, creator): embedding is left at its default None
\* by every caller in src/.
Video(id, tags, c) ==
    [id |-> id, title |-> "title", description |-> "descr", tags |-> tags,
     category |-> "Education", duration |-> 300, upload_date |-> "2023-01-01",
     views |-> c[1], likes |-> c[2], creator |-> "creator", embedding |-> None]


(***************************************************************************)
(* json.dumps / json.loads on a list of strings and on a dict, as token    *)
(* sequences of the JSON text.  A dict is kept as its list of <<key,value>>*)
(* items in insertion order.                                               *)
(***************************************************************************)
\* Generic list helpers.
Range(s) == {s[i] : i \in 1..Len(s)}

RECURSIVE JoinItems(_)
JoinItems(items) ==
    IF Len(items) = 0 THEN << >>
    ELSE IF Len(items) = 1 THEN items[1]
    ELSE items[1] \o <<",">> \o JoinItems(Tail(items))

\* s with f applied to every element
RECURSIVE Map(_, _)
Map(s, f) == IF s = << >> THEN << >> ELSE <<f[Head(s)]>> \o Map(Tail(s), f)

DumpsList(list) ==
    <<"[">> \o JoinItems(Map(list, [x \in Range(list) |-> <<x>>])) \o <<"]">>

RECURSIVE LoadsList(_)
LoadsList(text) ==
    IF Len(text) <= 2 THEN << >>
    ELSE <<text[2]>> \o LoadsList(<<"[">> \o SubSeq(text, 4, Len(text)))

DumpsDict(dict) ==
    <<"{">> \o JoinItems(Map(dict, [x \in Range(dict) |-> <<x[1], ":", x[2]>>])) \o <<"}">>

RECURSIVE LoadsDict(_)
LoadsDict(text) ==
    IF Len(text) <= 2 THEN << >>
    ELSE <<<<text[2], text[4]>>>> \o LoadsDict(<<"{">> \o SubSeq(text, 6, Len(text)))


(***************************************************************************)
(* The base class LLMVideoRecommender (algorithm.py), which the handlers   *)
(* below call through super().  It keeps the in-memory state only.         *)
(***************************************************************************)
\* add_video: the catalog holds one Video per id.
BaseAddVideo(vs, video) ==
    IF \E i \in 1..Len(vs) : vs[i].id = video.id
    THEN Map(vs, [w \in Range(vs) |-> IF w.id = video.id THEN video ELSE w])
    ELSE Append(vs, video)

NewProfile(preferences) ==
    [preferences |-> preferences, watch_history |-> << >>,
     liked_videos |-> << >>, disliked_videos |-> << >>]

\* ups with key u bound to profile p (dict assignment).
SetProfile(ups, u, p) ==
    [x \in DOMAIN ups \cup {u} |-> IF x = u THEN p ELSE ups[x]]

\* create_user_profile: replaces the preferences document, keeps history and likes.
BaseCreateUserProfile(ups, u, preferences) ==
    IF u \in DOMAIN ups
    THEN [ups EXCEPT ![u].preferences = preferences]
    ELSE SetProfile(ups, u, NewProfile(preferences))

\* update_user_watch_history: the event goes to the front of the user's
\* in-memory history (most recent first); an unknown user is left alone.
BaseUpdateUserWatchHistory(ups, u, v, rating, ts) ==
    IF u \in DOMAIN ups
    THEN [ups EXCEPT ![u].watch_history =
              <<[video_id |-> v, timestamp |-> ts, rating |-> rating]>> \o @]
    ELSE ups

(***************************************************************************)
(* The SQL statements, each a function of the table it writes or reads.    *)
(***************************************************************************)
\* INSERT OR REPLACE INTO videos: a row with the same primary key is deleted,
\* the new row gets the next rowid.
InsertOrReplaceVideo(table, row) ==
    Append(SelectSeq(table, LAMBDA r : r.id # row.id), row)

\* ndarray.tobytes() and np.frombuffer(.., dtype=float64): 8 bytes per component
ToBytes(embedding) == [width |-> 8, data |-> embedding]
FromBuffer(blob) == blob.data

VideoRow(video) ==
    [id |-> video.id, title |-> video.title, description |-> video.description,
     tags |-> IF video.tags # << >> THEN DumpsList(video.tags) ELSE <<"[", "]">>,
     category |-> video.category, duration |-> video.duration,
     upload_date |-> video.upload_date, views |-> video.views,
     likes |-> video.likes, creator |-> video.creator,
     embedding |-> IF video.embedding # None THEN ToBytes(video.embedding) ELSE None]

add_video_to_db(table, video) == InsertOrReplaceVideo(table, VideoRow(video))

\* RowVideo reading views and likes from each other's column
RowVideo_swapped(row) ==
    [id |-> row.id, title |-> row.title, description |-> row.description,
     tags |-> IF row.tags # << >> THEN LoadsList(row.tags) ELSE << >>,
     category |-> row.category, duration |-> row.duration,
     upload_date |-> row.upload_date, views |-> row.likes,
     likes |-> row.views, creator |-> row.creator,
     embedding |-> IF row.embedding # None THEN FromBuffer(row.embedding) ELSE None]

RowVideo(row) ==
    [id |-> row.id, title |-> row.title, description |-> row.description,
     tags |-> IF row.tags # << >> THEN LoadsList(row.tags) ELSE << >>,
     category |-> row.category, duration |-> row.duration,
     upload_date |-> row.upload_date, views |-> row.views,
     likes |-> row.likes, creator |-> row.creator,
     embedding |-> IF row.embedding # None THEN FromBuffer(row.embedding) ELSE None]

\* load_videos_from_db: the list that replaces self.videos.
load_videos_from_db(table) == Map(table, [row \in Range(table) |-> RowVideo(row)])

\* a plain INSERT INTO user_profiles, which keeps the row already there
InsertProfile(table, row) == Append(table, row)

InsertOrReplaceProfile(table, row) ==
    Append(SelectSeq(table, LAMBDA r : r.user_id # row.user_id), row)

save_user_profile_to_db(table, u, preferences, ts) ==
    InsertOrReplaceProfile(table,
        [user_id |-> u, preferences |-> DumpsDict(preferences),
         created_at |-> ts, updated_at |-> ts])

\* ORDER BY timestamp DESC: insertion sort of the rows, latest first.
RECURSIVE InsertDesc(_, _)
InsertDesc(sorted, row) ==
    IF sorted = << >> THEN <<row>>
    ELSE IF row.timestamp > Head(sorted).timestamp THEN <<row>> \o sorted
    ELSE <<Head(sorted)>> \o InsertDesc(Tail(sorted), row)

RECURSIVE OrderByTimestampDesc(_)
OrderByTimestampDesc(rows) ==
    IF rows = << >> THEN << >>
    ELSE InsertDesc(OrderByTimestampDesc(Tail(rows)), Head(rows))

\* load_user_profiles_from_db, first loop: every row of user_profiles resets
\* that user's in-memory entry; entries of other users stay as they are.
RECURSIVE LoadProfileRows(_, _)
LoadProfileRows(ups, rows) ==
    IF rows = << >> THEN ups
    ELSE LoadProfileRows(
             SetProfile(ups, Head(rows).user_id,
                 NewProfile(IF Head(rows).preferences # << >>
                            THEN LoadsDict(Head(rows).preferences) ELSE << >>)),
             Tail(rows))

\* second loop: the watch rows, latest first, appended for users held in memory.
RECURSIVE LoadWatchRows(_, _)
LoadWatchRows(ups, rows) ==
    IF rows = << >> THEN ups
    ELSE LET row == Head(rows)
             next == IF row.user_id \in DOMAIN ups
                     THEN [ups EXCEPT ![row.user_id].watch_history =
                               Append(@, [video_id |-> row.video_id,
                                          timestamp |-> row.timestamp,
                                          rating |-> row.rating])]
                     ELSE ups
         IN LoadWatchRows(next, Tail(rows))

\* third loop: the like rows in id order, appended for users held in memory.
RECURSIVE LoadLikedRows(_, _)
LoadLikedRows(ups, rows) ==
    IF rows = << >> THEN ups
    ELSE LET row == Head(rows)
             next == IF row.user_id \in DOMAIN ups
                     THEN [ups EXCEPT ![row.user_id].liked_videos =
                               Append(@, row.video_id)]
                     ELSE ups
         IN LoadLikedRows(next, Tail(rows))

load_user_profiles_from_db(ups, profiles, watches, likes) ==
    LoadLikedRows(
        LoadWatchRows(LoadProfileRows(ups, profiles), OrderByTimestampDesc(watches)),
        likes)

\* the UPDATE without its WHERE clause
update_video_stats_all(table, v, views_delta, likes_delta) ==
    Map(table, [row \in Range(table) |->
        [row EXCEPT !.views = @ + views_delta, !.likes = @ + likes_delta]])

\* UPDATE videos SET views = views + ?, likes = likes + ? WHERE id = ?
update_video_stats(table, v, views_delta, likes_delta) ==
    Map(table, [row \in Range(table) |->
        IF row.id = v
        THEN [row EXCEPT !.views = @ + views_delta, !.likes = @ + likes_delta]
        ELSE row])

\* log_recommendation binding user_id and video_id the wrong way round
log_recommendation_swapped(table, u, v, score, rec_type, ts) ==
    Append(table, [user_id |-> v, video_id |-> u, recommendation_score |-> score,
                   timestamp |-> ts, recommendation_type |-> rec_type])

\* INSERT INTO recommendation_logs
log_recommendation(table, u, v, score, rec_type, ts) ==
    Append(table, [user_id |-> u, video_id |-> v, recommendation_score |-> score,
                   timestamp |-> ts, recommendation_type |-> rec_type])

\* a truthy Optional[str] argument (`if user_id:`): neither None nor ""
Truthy(user_id) == user_id # None /\ user_id[1] # ""

Max(a, b) == IF a >= b THEN a ELSE b

\* recommendation_logs r LEFT JOIN watch_history w ON r.video_id = w.video_id
\* AND r.user_id = w.user_id: for one row r, the w.rating column of the rows it
\* yields, a single NULL when no watch row matches.
MatchRatings(r, watches) ==
    LET matching == SelectSeq(watches, LAMBDA w : w.video_id = r.video_id
                                                  /\ w.user_id = r.user_id)
    IN IF matching = << >> THEN <<None>>
       ELSE Map(matching, [w \in Range(matching) |-> w.rating])

RECURSIVE LeftJoin(_, _)
LeftJoin(logs, watches) ==
    IF logs = << >> THEN << >>
    ELSE MatchRatings(Head(logs), watches) \o LeftJoin(Tail(logs), watches)

\* sum(row[4] for row in rows if row[4] is not None)
RECURSIVE SumRatings(_)
SumRatings(rows) ==
    IF rows = << >> THEN 0
    ELSE (IF Head(rows) # None THEN Head(rows)[1] ELSE 0) + SumRatings(Tail(rows))

\* get_recommendation_effectiveness with the division left out
get_recommendation_effectiveness_nomax(logs, watches, user_id, since) ==
    LET selected == SelectSeq(logs, LAMBDA r : /\ r.timestamp >= since
                                               /\ Truthy(user_id) => r.user_id = user_id[1])
        rows == LeftJoin(selected, watches)
        total_recommendations == Len(rows)
        clicked_recommendations == Len(SelectSeq(rows, LAMBDA rating : rating # None))
    IN [total_recommendations |-> total_recommendations,
        clicked_recommendations |-> clicked_recommendations,
        click_through_rate |-> <<clicked_recommendations, total_recommendations>>,
        avg_rating |-> <<SumRatings(rows), clicked_recommendations>>]

\* get_recommendation_effectiveness: the dict it returns.  A quotient a / b is
\* kept as the pair <<a, b>>; the int 0 of the else branch is <<0, 1>>.
get_recommendation_effectiveness(logs, watches, user_id, since) ==
    LET selected == SelectSeq(logs, LAMBDA r : /\ r.timestamp >= since
                                               /\ Truthy(user_id) => r.user_id = user_id[1])
        rows == LeftJoin(selected, watches)
        total_recommendations == Len(rows)
        clicked_recommendations == Len(SelectSeq(rows, LAMBDA rating : rating # None))
    IN [total_recommendations |-> total_recommendations,
        clicked_recommendations |-> clicked_recommendations,
        click_through_rate |-> <<clicked_recommendations, Max(1, total_recommendations)>>,
        avg_rating |-> IF clicked_recommendations > 0
                       THEN <<SumRatings(rows), Max(1, clicked_recommendations)>>
                       ELSE <<0, 1>>]

(***************************************************************************)
(* analyze_user_behavior_patterns (src/database_learning_demo.py): the     *)
(* pairs of users it prints, with the locals it computes for each.         *)
(***************************************************************************)
HighRating == 4

\* the user ids in the order ORDER BY user_id yields them
UserOrder == <<"u1", "u2">>

\* ORDER BY rating DESC over rated rows, rows of equal rating in id order
RECURSIVE InsertByRating(_, _)
InsertByRating(sorted, row) ==
    IF sorted = << >> THEN <<row>>
    ELSE IF row.rating[1] > Head(sorted).rating[1] THEN <<row>> \o sorted
    ELSE <<Head(sorted)>> \o InsertByRating(Tail(sorted), row)

RECURSIVE OrderByRatingDesc(_)
OrderByRatingDesc(rows) ==
    IF rows = << >> THEN << >>
    ELSE InsertByRating(OrderByRatingDesc(SubSeq(rows, 1, Len(rows) - 1)),
                        rows[Len(rows)])

\* user_video_preferences[u]: the (video_id, rating) pairs of u's rated rows
UserVideoPreferences(watches, u) ==
    LET rated == OrderByRatingDesc(
                     SelectSeq(watches, LAMBDA w : w.user_id = u /\ w.rating # None))
    IN Map(rated, [w \in Range(rated) |-> <<w.video_id, w.rating[1]>>])

\* the body of the loop over pairs, for user1 before user2
PairReport(watches, user1, user2) ==
    LET prefs1 == UserVideoPreferences(watches, user1)
        prefs2 == UserVideoPreferences(watches, user2)
        videos1 == {prefs1[i][1] : i \in 1..Len(prefs1)}
        videos2 == {prefs2[i][1] : i \in 1..Len(prefs2)}
        user1_high_rated == SelectSeq(prefs1, LAMBDA x : x[2] >= HighRating)
        potential == SelectSeq(user1_high_rated, LAMBDA x : x[1] \notin videos2)
    IN [user1 |-> user1, user2 |-> user2,
        common_videos |-> videos1 \cap videos2,
        potential_recommendations |-> Map(potential, [x \in Range(potential) |-> x[1]])]

\* for i, user1 in enumerate(user_ids): for user2 in user_ids[i+1:]
RECURSIVE PairReports(_, _)
PairReports(watches, user_ids) ==
    IF Len(user_ids) <= 1 THEN << >>
    ELSE LET others == Tail(user_ids)
             reports == Map(others, [u \in Range(others) |->
                                        PairReport(watches, Head(user_ids), u)])
         IN SelectSeq(reports, LAMBDA r : r.common_videos # {})
            \o PairReports(watches, others)

analyze_user_behavior_patterns(watches) ==
    PairReports(watches,
        SelectSeq(UserOrder, LAMBDA u : UserVideoPreferences(watches, u) # << >>))

(***************************************************************************)
(* The ranker of the base class: get_recommendations(user_id, n).          *)
(***************************************************************************)
Watched(ups, u) ==
    IF u \in DOMAIN ups
    THEN {ups[u].watch_history[i].video_id : i \in 1..Len(ups[u].watch_history)}
    ELSE {}

LikedThreshold == 4

\* ids the user rated at or above the threshold
HighRated(ups, u) ==
    IF u \in DOMAIN ups
    THEN {ups[u].watch_history[i].video_id :
              i \in {j \in 1..Len(ups[u].watch_history) :
                        /\ ups[u].watch_history[j].rating # None
                        /\ ups[u].watch_history[j].rating[1] >= LikedThreshold}}
    ELSE {}

\* the terms of a video's text document: title, description, tags
Terms(video) == {video.title, video.description} \cup Range(video.tags)

\* similarity of two videos on a scale of 0..100
Similarity(a, b) ==
    LET common == Cardinality(Terms(a) \cap Terms(b))
    IN (100 * common * common) \div (Cardinality(Terms(a)) * Cardinality(Terms(b)))

RECURSIVE SumSimilarity(_, _)
SumSimilarity(video, S) ==
    IF S = {} THEN 0
    ELSE LET w == CHOOSE y \in S : TRUE
         IN Similarity(video, w) + SumSimilarity(video, S \ {w})

Score(ups, vs, u, video) ==
    LET liked == {w \in Range(vs) : w.id \in HighRated(ups, u)}
    IN IF liked = {} THEN 0
       ELSE SumSimilarity(video, liked) \div Cardinality(liked)

\* position of an id in the lexicographic order of the ids
IdOrder == <<"v1", "v2", "v3">>
IdRank(id) == CHOOSE i \in 1..Len(IdOrder) : IdOrder[i] = id

\* a ranks before b: higher score, then more views, then smaller id
RanksBefore(a, b) ==
    \/ a[2] > b[2]
    \/ a[2] = b[2] /\ a[1].views > b[1].views
    \/ a[2] = b[2] /\ a[1].views = b[1].views /\ IdRank(a[1].id) < IdRank(b[1].id)

RECURSIVE Ranked(_)
Ranked(S) ==
    IF S = {} THEN << >>
    ELSE LET best == CHOOSE x \in S : \A y \in S \ {x} : RanksBefore(x, y)
         IN <<best>> \o Ranked(S \ {best})

get_recommendations(ups, vs, u, n) ==
    LET scored == {<<video, Score(ups, vs, u, video)>> :
                       video \in {w \in Range(vs) : w.id \notin Watched(ups, u)}}
        ranked == Ranked(scored)
    IN SubSeq(ranked, 1, IF n < Len(ranked) THEN n ELSE Len(ranked))

\* datetime.now() advances between any two readings.  A handler call is one
\* tick of the clock: the base class reads the time first, the statement that
\* writes the row reads it after.
BaseStamp(tick) == 2 * tick - 1
DbStamp(tick) == 2 * tick

\* like_video, lines 343-345: the id joins the in-memory list if absent.
LikeInMemory(ups, u, v) ==
    IF u \in DOMAIN ups /\ v \notin Range(ups[u].liked_videos)
    THEN [ups EXCEPT ![u].liked_videos = Append(@, v)]
    ELSE ups

\* the loop of get_personalized_recommendations_with_feedback over the first
\* k recommendations, each logged with its own timestamp
RECURSIVE LogAll(_, _, _, _, _)
LogAll(table, u, recs, rec_type, ts) ==
    IF recs = << >> THEN table
    ELSE LogAll(log_recommendation(table, u, Head(recs)[1].id, Head(recs)[2], rec_type,
                                   DbStamp(ts)),
                u, Tail(recs), rec_type, ts + 1)

\* The handle whose memory is videos and user_profiles is handle 1; handle 2
\* is the recommender another entry point constructs on the same file.
Handles == {1, 2}
Closed == [open |-> FALSE, videos |-> << >>, user_profiles |-> << >>]

(***************************************************************************)
(* The handlers.  fail = 0: no statement raises; fail = k: the k-th        *)
(* statement the handler executes raises and the exception leaves the      *)
(* handler, the statements before it being committed.                      *)
(***************************************************************************)
Init ==
    /\ videos = << >>
    /\ user_profiles = << >>
    /\ db_videos = << >>
    /\ db_user_profiles = << >>
    /\ watch_history = << >>
    /\ liked_videos = << >>
    /\ recommendation_logs = << >>
    /\ clock = 1
    /\ window_start = 0
    /\ lastCall = [op |-> "init", ok |-> TRUE]
    /\ other = Closed
    /\ pending = [h \in Handles |-> None]

AddVideoToDb(video) ==
    /\ db_videos' = add_video_to_db(db_videos, video)
    /\ lastCall' = [op |-> "add_video_to_db", video |-> video, ok |-> TRUE]
    /\ UNCHANGED <<other, pending, window_start, videos, user_profiles, db_user_profiles, watch_history,
                   liked_videos, recommendation_logs, clock>>

AddVideo(video, fail) ==
    /\ videos' = BaseAddVideo(videos, video)
    /\ db_videos' = IF fail = 0 THEN add_video_to_db(db_videos, video) ELSE db_videos
    /\ lastCall' = [op |-> "add_video", video |-> video, ok |-> fail = 0]
    /\ UNCHANGED <<other, pending, window_start, user_profiles, db_user_profiles, watch_history,
                   liked_videos, recommendation_logs, clock>>

SaveUserProfileToDb(u, preferences) ==
    /\ db_user_profiles' =
           save_user_profile_to_db(db_user_profiles, u, preferences, DbStamp(clock))
    /\ clock' = clock + 1
    /\ lastCall' = [op |-> "save_user_profile_to_db", user |-> u,
                    preferences |-> preferences, ok |-> TRUE]
    /\ UNCHANGED <<other, pending, window_start, videos, user_profiles, db_videos, watch_history,
                   liked_videos, recommendation_logs>>

\* create_user_profile building the in-memory entry afresh, as the loader does
CreateUserProfileFresh(u, preferences, fail) ==
    /\ user_profiles' = SetProfile(user_profiles, u, NewProfile(preferences))
    /\ db_user_profiles' =
           IF fail = 0
           THEN save_user_profile_to_db(db_user_profiles, u, preferences, DbStamp(clock))
           ELSE db_user_profiles
    /\ clock' = IF fail = 0 THEN clock + 1 ELSE clock
    /\ lastCall' = [op |-> "create_user_profile", user |-> u,
                    preferences |-> preferences, ok |-> fail = 0]
    /\ UNCHANGED <<other, pending, window_start, videos, db_videos, watch_history, liked_videos,
                   recommendation_logs>>

CreateUserProfile(u, preferences, fail) ==
    /\ user_profiles' = BaseCreateUserProfile(user_profiles, u, preferences)
    /\ db_user_profiles' =
           IF fail = 0
           THEN save_user_profile_to_db(db_user_profiles, u, preferences, DbStamp(clock))
           ELSE db_user_profiles
    /\ clock' = IF fail = 0 THEN clock + 1 ELSE clock
    /\ lastCall' = [op |-> "create_user_profile", user |-> u,
                    preferences |-> preferences, ok |-> fail = 0]
    /\ UNCHANGED <<other, pending, window_start, videos, db_videos, watch_history, liked_videos,
                   recommendation_logs>>

\* update_user_watch_history writing with INSERT OR REPLACE on (user_id, video_id)
UpdateUserWatchHistoryReplace(u, v, rating, fail) ==
    /\ user_profiles' =
           BaseUpdateUserWatchHistory(user_profiles, u, v, rating, BaseStamp(clock))
    /\ watch_history' =
           IF fail = 1 THEN watch_history
           ELSE Append(SelectSeq(watch_history,
                                 LAMBDA r : ~ (r.user_id = u /\ r.video_id = v)),
                       [user_id |-> u, video_id |-> v,
                        timestamp |-> DbStamp(clock), rating |-> rating])
    /\ db_videos' = IF fail = 0 THEN update_video_stats(db_videos, v, 1, 0) ELSE db_videos
    /\ clock' = clock + 1
    /\ lastCall' = [op |-> "update_user_watch_history", user |-> u, video_id |-> v,
                    rating |-> rating, ok |-> fail = 0]
    /\ UNCHANGED <<other, pending, window_start, videos, db_user_profiles, liked_videos, recommendation_logs>>

UpdateUserWatchHistory(u, v, rating, fail) ==
    /\ user_profiles' =
           BaseUpdateUserWatchHistory(user_profiles, u, v, rating, BaseStamp(clock))
    /\ watch_history' =
           IF fail = 1 THEN watch_history
           ELSE Append(watch_history, [user_id |-> u, video_id |-> v,
                                       timestamp |-> DbStamp(clock), rating |-> rating])
    /\ db_videos' = IF fail = 0 THEN update_video_stats(db_videos, v, 1, 0) ELSE db_videos
    /\ clock' = clock + 1
    /\ lastCall' = [op |-> "update_user_watch_history", user |-> u, video_id |-> v,
                    rating |-> rating, ok |-> fail = 0]
    /\ UNCHANGED <<other, pending, window_start, videos, db_user_profiles, liked_videos, recommendation_logs>>

LikeVideo(u, v, fail) ==
    /\ liked_videos' =
           IF fail = 1 THEN liked_videos
           ELSE Append(liked_videos, [user_id |-> u, video_id |-> v,
                                      timestamp |-> DbStamp(clock)])
    /\ db_videos' = IF fail = 0 THEN update_video_stats(db_videos, v, 0, 1) ELSE db_videos
    /\ user_profiles' = IF fail = 0 THEN LikeInMemory(user_profiles, u, v) ELSE user_profiles
    /\ clock' = IF fail = 1 THEN clock ELSE clock + 1
    /\ lastCall' = [op |-> "like_video", user |-> u, video_id |-> v, ok |-> fail = 0]
    /\ UNCHANGED <<other, pending, window_start, videos, db_user_profiles, watch_history, recommendation_logs>>

\* the serve call leaving n_recommendations at its default of 10
GetPersonalizedRecommendationsWithFeedbackDefault(u, n, requested, fail) ==
    LET recommendations == get_recommendations(user_profiles, videos, u, 10)
        logged == IF fail = 0 THEN Len(recommendations) ELSE fail - 1
    IN /\ fail <= Len(recommendations)
       /\ recommendation_logs' =
              LogAll(recommendation_logs, u, SubSeq(recommendations, 1, logged),
                     "personalized", clock)
       /\ clock' = clock + logged
       /\ lastCall' = [op |-> "get_personalized_recommendations_with_feedback",
                       user |-> u, n |-> n, rec_type |-> requested, ok |-> fail = 0,
                       ret |-> IF fail = 0 THEN recommendations ELSE << >>]
       /\ UNCHANGED <<other, pending, window_start, videos, user_profiles, db_videos, db_user_profiles,
                      watch_history, liked_videos>>

\* requested: the type tag the caller wants on the rows.  The method takes no
\* such argument and passes "personalized" to log_recommendation.
GetPersonalizedRecommendationsWithFeedback(u, n, requested, fail) ==
    LET recommendations == get_recommendations(user_profiles, videos, u, n)
        logged == IF fail = 0 THEN Len(recommendations) ELSE fail - 1
    IN /\ fail <= Len(recommendations)
       /\ recommendation_logs' =
              LogAll(recommendation_logs, u, SubSeq(recommendations, 1, logged),
                     "personalized", clock)
       /\ clock' = clock + logged
       /\ lastCall' = [op |-> "get_personalized_recommendations_with_feedback",
                       user |-> u, n |-> n, rec_type |-> requested, ok |-> fail = 0,
                       ret |-> IF fail = 0 THEN recommendations ELSE << >>]
       /\ UNCHANGED <<other, pending, window_start, videos, user_profiles, db_videos, db_user_profiles,
                      watch_history, liked_videos>>

LoadVideosFromDb ==
    /\ videos' = load_videos_from_db(db_videos)
    /\ lastCall' = [op |-> "load_videos_from_db", ok |-> TRUE]
    /\ UNCHANGED <<other, pending, window_start, user_profiles, db_videos, db_user_profiles, watch_history,
                   liked_videos, recommendation_logs, clock>>

LoadUserProfilesFromDb ==
    /\ user_profiles' = load_user_profiles_from_db(user_profiles, db_user_profiles,
                                                   watch_history, liked_videos)
    /\ lastCall' = [op |-> "load_user_profiles_from_db", ok |-> TRUE]
    /\ UNCHANGED <<other, pending, window_start, videos, db_videos, db_user_profiles, watch_history,
                   liked_videos, recommendation_logs, clock>>

TrainWithDbData ==
    /\ videos' = load_videos_from_db(db_videos)
    /\ user_profiles' = load_user_profiles_from_db(user_profiles, db_user_profiles,
                                                   watch_history, liked_videos)
    /\ lastCall' = [op |-> "train_with_db_data", ok |-> TRUE]
    /\ UNCHANGED <<other, pending, window_start, db_videos, db_user_profiles, watch_history, liked_videos,
                   recommendation_logs, clock>>

\* get_recommendations(user_id, n) of the base class, called by a client: a
\* read of the in-memory state
GetRecommendations(u, n) ==
    /\ lastCall' = [op |-> "get_recommendations", user |-> u, n |-> n, ok |-> TRUE,
                    ret |-> get_recommendations(user_profiles, videos, u, n)]
    /\ UNCHANGED <<other, pending, window_start, videos, user_profiles, db_videos, db_user_profiles,
                   watch_history, liked_videos, recommendation_logs, clock>>

\* get_recommendation_effectiveness(user_id): a read of the two logs
GetRecommendationEffectiveness(user_id) ==
    /\ lastCall' = [op |-> "get_recommendation_effectiveness", user |-> user_id,
                    ok |-> TRUE,
                    ret |-> get_recommendation_effectiveness(
                                recommendation_logs, watch_history, user_id, window_start)]
    /\ UNCHANGED <<other, pending, window_start, videos, user_profiles, db_videos, db_user_profiles,
                   watch_history, liked_videos, recommendation_logs, clock>>

\* analyze_user_behavior_patterns(): a read of watch_history through a handle
\* of its own (init_database creates no table that exists already)
AnalyzeUserBehaviorPatterns ==
    /\ lastCall' = [op |-> "analyze_user_behavior_patterns", ok |-> TRUE,
                    ret |-> analyze_user_behavior_patterns(watch_history)]
    /\ UNCHANGED <<other, pending, window_start, videos, user_profiles, db_videos, db_user_profiles,
                   watch_history, liked_videos, recommendation_logs, clock>>

\* Days go by with no call: date('now', '-30 days') moves on to w, which lies
\* between two stamps already taken or just before the next one.
TimePasses(w) ==
    /\ w > window_start
    /\ w \in {BaseStamp(tick) : tick \in 1..clock}
    /\ window_start' = w
    /\ UNCHANGED <<videos, user_profiles, db_videos, db_user_profiles, watch_history,
                   liked_videos, recommendation_logs, clock, lastCall, other, pending>>

(***************************************************************************)
(* Two handles on one database file.  Each statement is its own            *)
(* transaction, so between the INSERT of a call and its UPDATE the other   *)
(* handle may run statements of its own.  An UPDATE reads and writes the   *)
(* counter inside the one statement, under SQLite's write lock.            *)
(***************************************************************************)
\* CREATE TABLE IF NOT EXISTS on a file where the table may exist already
CreateTableIfNotExists(exists, table) == IF exists THEN table ELSE << >>

\* init_database: the five tables after the constructor has run
init_database(exists, tables) ==
    [t \in DOMAIN tables |-> CreateTableIfNotExists(exists, tables[t])]

\* the in-memory state of handle h
Memory(h) == IF h = 1 THEN [videos |-> videos, user_profiles |-> user_profiles]
             ELSE [videos |-> other.videos, user_profiles |-> other.user_profiles]

\* handle h's in-memory state becomes m
SetMemory(h, m) ==
    IF h = 1
    THEN videos' = m.videos /\ user_profiles' = m.user_profiles /\ other' = other
    ELSE /\ other' = [other EXCEPT !.videos = m.videos, !.user_profiles = m.user_profiles]
         /\ UNCHANGED <<videos, user_profiles>>

IsOpen(h) == h = 1 \/ other.open

\* DatabaseVideoRecommender() on the file handle 1 created: the constructor
\* of the second handle
OpenHandle ==
    LET tables == init_database(TRUE,
                      [videos |-> db_videos, user_profiles |-> db_user_profiles,
                       watch_history |-> watch_history, liked_videos |-> liked_videos,
                       recommendation_logs |-> recommendation_logs])
    IN /\ ~ other.open
       /\ other' = [open |-> TRUE, videos |-> << >>, user_profiles |-> << >>]
       /\ db_videos' = tables.videos
       /\ db_user_profiles' = tables.user_profiles
       /\ watch_history' = tables.watch_history
       /\ liked_videos' = tables.liked_videos
       /\ recommendation_logs' = tables.recommendation_logs
       /\ lastCall' = [op |-> "__init__", handle |-> 2, ok |-> TRUE]
       /\ UNCHANGED <<videos, user_profiles, clock, window_start, pending>>

\* update_user_watch_history through handle h, up to the commit of its INSERT
WatchInsert(h, u, v, rating) ==
    /\ IsOpen(h) /\ pending[h] = None
    /\ SetMemory(h, [Memory(h) EXCEPT !.user_profiles =
                         BaseUpdateUserWatchHistory(@, u, v, rating, BaseStamp(clock))])
    /\ watch_history' = Append(watch_history, [user_id |-> u, video_id |-> v,
                                               timestamp |-> DbStamp(clock),
                                               rating |-> rating])
    /\ clock' = clock + 1
    /\ pending' = [pending EXCEPT ![h] =
                       <<[op |-> "update_user_watch_history", user |-> u, video_id |-> v,
                          timestamp |-> DbStamp(clock),
                          views_delta |-> 1, likes_delta |-> 0]>>]
    /\ UNCHANGED <<db_videos, db_user_profiles, liked_videos, recommendation_logs,
                   window_start, lastCall>>

\* like_video through handle h, up to the commit of its INSERT
LikeInsert(h, u, v) ==
    /\ IsOpen(h) /\ pending[h] = None
    /\ liked_videos' = Append(liked_videos, [user_id |-> u, video_id |-> v,
                                             timestamp |-> DbStamp(clock)])
    /\ clock' = clock + 1
    /\ pending' = [pending EXCEPT ![h] =
                       <<[op |-> "like_video", user |-> u, video_id |-> v,
                          timestamp |-> DbStamp(clock),
                          views_delta |-> 0, likes_delta |-> 1]>>]
    /\ UNCHANGED <<videos, user_profiles, other, db_videos, db_user_profiles,
                   watch_history, recommendation_logs, window_start, lastCall>>

\* update_video_stats writing back the counters of the Video object the handle
\* holds in memory, plus the deltas
UpdateVideoStatsCached(h) ==
    /\ pending[h] # None
    /\ LET call == pending[h][1]
           held == SelectSeq(Memory(h).videos, LAMBDA w : w.id = call.video_id)
       IN /\ db_videos' =
                 IF held = << >>
                 THEN update_video_stats(db_videos, call.video_id,
                                         call.views_delta, call.likes_delta)
                 ELSE Map(db_videos, [row \in Range(db_videos) |->
                          IF row.id = call.video_id
                          THEN [row EXCEPT !.views = held[1].views + call.views_delta,
                                           !.likes = held[1].likes + call.likes_delta]
                          ELSE row])
          /\ SetMemory(h, IF call.op = "like_video"
                          THEN [Memory(h) EXCEPT !.user_profiles =
                                    LikeInMemory(@, call.user, call.video_id)]
                          ELSE Memory(h))
          /\ lastCall' = [op |-> call.op, handle |-> h, user |-> call.user,
                          video_id |-> call.video_id, timestamp |-> call.timestamp,
                          ok |-> TRUE]
    /\ pending' = [pending EXCEPT ![h] = None]
    /\ UNCHANGED <<db_user_profiles, watch_history, liked_videos, recommendation_logs,
                   clock, window_start>>

\* the rest of the call handle h has in flight: update_video_stats and, for a
\* like, the in-memory liked list
UpdateVideoStats(h) ==
    /\ pending[h] # None
    /\ LET call == pending[h][1]
       IN /\ db_videos' = update_video_stats(db_videos, call.video_id,
                                             call.views_delta, call.likes_delta)
          /\ SetMemory(h, IF call.op = "like_video"
                          THEN [Memory(h) EXCEPT !.user_profiles =
                                    LikeInMemory(@, call.user, call.video_id)]
                          ELSE Memory(h))
          /\ lastCall' = [op |-> call.op, handle |-> h, user |-> call.user,
                          video_id |-> call.video_id, timestamp |-> call.timestamp,
                          ok |-> TRUE]
    /\ pending' = [pending EXCEPT ![h] = None]
    /\ UNCHANGED <<db_user_profiles, watch_history, liked_videos, recommendation_logs,
                   clock, window_start>>

\* train_with_db_data through handle h
TrainWithDbDataThrough(h) ==
    /\ IsOpen(h) /\ pending[h] = None
    /\ SetMemory(h, [videos |-> load_videos_from_db(db_videos),
                     user_profiles |->
                         load_user_profiles_from_db(Memory(h).user_profiles,
                             db_user_profiles, watch_history, liked_videos)])
    /\ lastCall' = [op |-> "train_with_db_data", handle |-> h, ok |-> TRUE]
    /\ UNCHANGED <<db_videos, db_user_profiles, watch_history, liked_videos,
                   recommendation_logs, clock, window_start, pending>>

(***************************************************************************)
(* The calls a client may make, with arguments drawn from the sets of in:  *)
(* users, videos, ratings, prefs, types, limits, and per handler the       *)
(* statements that may raise (0: none).  A run is cut off after in.ticks   *)
(* ticks of the clock, and where an in-memory list would outgrow           *)
(* in.history.                                                             *)
(***************************************************************************)
Call(in) ==
    \/ \E video \in in.videos, fail \in in.fails.add : AddVideo(video, fail)
    \/ \E video \in in.videos : AddVideoToDb(video)
    \/ \E u \in in.users, p \in in.prefs, fail \in in.fails.create :
           CreateUserProfile(u, p, fail)
    \/ \E u \in in.users, p \in in.prefs : SaveUserProfileToDb(u, p)
    \/ \E u \in in.users, v \in {w.id : w \in in.videos}, r \in in.ratings,
          fail \in in.fails.watch : UpdateUserWatchHistory(u, v, r, fail)
    \/ \E u \in in.users, v \in {w.id : w \in in.videos}, fail \in in.fails.like :
           LikeVideo(u, v, fail)
    \/ \E u \in in.users, n \in in.limits, t \in in.types, fail \in in.fails.serve :
           GetPersonalizedRecommendationsWithFeedback(u, n, t, fail)
    \/ LoadVideosFromDb
    \/ LoadUserProfilesFromDb
    \/ TrainWithDbData

WithinBounds(in) ==
    /\ clock' <= in.ticks + 1
    /\ \A u \in DOMAIN user_profiles' :
           /\ Len(user_profiles'[u].watch_history) <= in.history
           /\ Len(user_profiles'[u].liked_videos) <= in.history

Step(in) == Call(in) /\ WithinBounds(in)

VideoA == Video("v1", << >>, <<0, 0>>)
VideoB == Video("v2", <<"python", "ml">>, <<2, 1>>)
VideoC == Video("v3", <<"python">>, <<0, 0>>)

NoFailure == [add |-> {0}, create |-> {0}, watch |-> {0}, like |-> {0}, serve |-> {0}]

\* Serving: two videos, one user; any log write of a serve call may raise.
ServeInputs ==
    [users |-> {"u1"}, videos |-> {VideoA, VideoB}, ratings |-> {<<5>>},
     prefs |-> {PrefsA}, types |-> RecTypes, limits |-> {1, 2},
     fails |-> [NoFailure EXCEPT !.serve = {0, 1, 2}],
     ticks |-> ServeTicks, history |-> MaxHistory]

Next == Step(ServeInputs)

Spec == Init /\ [][Next]_vars

\* Profiles, history and likes of one user over one video.
ProfileInputs ==
    [users |-> {"u1"}, videos |-> {VideoA}, ratings |-> {<<5>>},
     prefs |-> PrefDocs, types |-> {"personalized"}, limits |-> {1},
     fails |-> NoFailure, ticks |-> ProfileTicks, history |-> MaxHistory]

ProfileNext == Step(ProfileInputs)

ProfileSpec == Init /\ [][ProfileNext]_vars

\* Reloads after writes that may have raised.
ReloadInputs ==
    [users |-> {"u1"}, videos |-> {VideoA}, ratings |-> {<<5>>},
     prefs |-> {PrefsA}, types |-> {"personalized"}, limits |-> {1},
     fails |-> [NoFailure EXCEPT !.create = {0, 1}, !.add = {0, 1}],
     ticks |-> ReloadTicks, history |-> MaxHistory]

ReloadNext == Step(ReloadInputs)

ReloadSpec == Init /\ [][ReloadNext]_vars

\* The catalog and its counters: re-ingestion, and watches that may raise.
CatalogInputs ==
    [users |-> {"u1"}, videos |-> {VideoA, VideoB}, ratings |-> {None, <<5>>},
     prefs |-> {PrefsA}, types |-> {"personalized"}, limits |-> {1},
     fails |-> [NoFailure EXCEPT !.watch = 0..2],
     ticks |-> CatalogTicks, history |-> MaxHistory]

CatalogNext == Step(CatalogInputs)

CatalogSpec == Init /\ [][CatalogNext]_vars

\* The effectiveness report over the two logs it reads: users without a
\* profile are served the catalog and watch it, days go by, and the report is
\* asked for everybody (None, and "" which is as good as None) or for one user.
EffectInputs ==
    [users |-> {"u1", "u2"}, videos |-> {VideoA}, ratings |-> {None, <<5>>},
     limits |-> {1}, scopes |-> {None, <<"">>, <<"u1">>, <<"u2">>},
     ticks |-> EffectTicks, history |-> MaxHistory]

EffectCall(in) ==
    \/ \E video \in in.videos : AddVideo(video, 0)
    \/ \E u \in in.users, v \in {w.id : w \in in.videos}, r \in in.ratings :
           UpdateUserWatchHistory(u, v, r, 0)
    \/ \E u \in in.users, n \in in.limits :
           GetPersonalizedRecommendationsWithFeedback(u, n, "personalized", 0)
    \/ \E user_id \in in.scopes : GetRecommendationEffectiveness(user_id)
    \/ \E w \in 1..(2 * in.ticks + 1) : TimePasses(w)

EffectNext == EffectCall(EffectInputs) /\ WithinBounds(EffectInputs)

EffectSpec == Init /\ [][EffectNext]_vars

\* Ranking: three videos and one user, who may have a profile and a rated
\* history; the ranker called directly and through the serving method.
RankInputs ==
    [users |-> {"u1"}, videos |-> {VideoA, VideoB, VideoC}, ratings |-> {<<5>>},
     prefs |-> {PrefsA}, limits |-> {1, 2},
     ticks |-> RankTicks, history |-> MaxHistory]

RankCall(in) ==
    \/ \E video \in in.videos : AddVideo(video, 0)
    \/ \E u \in in.users, p \in in.prefs : CreateUserProfile(u, p, 0)
    \/ \E u \in in.users, v \in {w.id : w \in in.videos}, r \in in.ratings :
           UpdateUserWatchHistory(u, v, r, 0)
    \/ \E u \in in.users, n \in in.limits :
           GetPersonalizedRecommendationsWithFeedback(u, n, "personalized", 0)
    \/ \E u \in in.users, n \in in.limits : GetRecommendations(u, n)

RankNext == RankCall(RankInputs) /\ WithinBounds(RankInputs)

RankSpec == Init /\ [][RankNext]_vars

\* Ranking before and after a full reload: two videos, ingested through
\* add_video or add_video_to_db, one user, watches, likes and profile upserts.
StaleInputs ==
    [users |-> {"u1"}, videos |-> {VideoA, VideoB}, ratings |-> {None, <<5>>},
     prefs |-> {PrefsA}, limits |-> {1, 2},
     ticks |-> RankTicks, history |-> MaxHistory]

StaleCall(in) ==
    \/ \E video \in in.videos : AddVideo(video, 0)
    \/ \E video \in in.videos : AddVideoToDb(video)
    \/ \E u \in in.users, p \in in.prefs : CreateUserProfile(u, p, 0)
    \/ \E u \in in.users, v \in {w.id : w \in in.videos}, r \in in.ratings :
           UpdateUserWatchHistory(u, v, r, 0)
    \/ \E u \in in.users, v \in {w.id : w \in in.videos} : LikeVideo(u, v, 0)
    \/ \E u \in in.users, n \in in.limits :
           GetPersonalizedRecommendationsWithFeedback(u, n, "personalized", 0)
    \/ \E u \in in.users, n \in in.limits : GetRecommendations(u, n)
    \/ TrainWithDbData

StaleNext == StaleCall(StaleInputs) /\ WithinBounds(StaleInputs)

StaleSpec == Init /\ [][StaleNext]_vars

\* The overlap analysis over the watch log of two users and two videos, watched
\* with a high rating, a low rating or none.
OverlapInputs ==
    [users |-> {"u1", "u2"}, videos |-> {VideoA, VideoB}, ratings |-> {None, <<3>>, <<5>>},
     ticks |-> OverlapTicks, history |-> MaxHistory]

OverlapCall(in) ==
    \/ \E u \in in.users, v \in {w.id : w \in in.videos}, r \in in.ratings :
           UpdateUserWatchHistory(u, v, r, 0)
    \/ AnalyzeUserBehaviorPatterns

OverlapNext == OverlapCall(OverlapInputs) /\ WithinBounds(OverlapInputs)

OverlapSpec == Init /\ [][OverlapNext]_vars

\* Storage failures: every statement of every mutating handler may raise.
FailInputs ==
    [users |-> {"u1"}, videos |-> {VideoA}, ratings |-> {<<5>>},
     prefs |-> {PrefsA}, types |-> {"personalized"}, limits |-> {1},
     fails |-> [add |-> {0, 1}, create |-> {0, 1}, watch |-> 0..2, like |-> 0..2,
                serve |-> {0, 1}],
     ticks |-> FailTicks, history |-> MaxHistory]

FailNext == Step(FailInputs)

FailSpec == Init /\ [][FailNext]_vars

\* Two handles: the first has ingested two videos and created a profile, as
\* main does before any interaction; then the second is constructed at some
\* point and watches and likes of the stored videos go through both handles,
\* statement by statement, with reloads in between.
HandlesInputs ==
    [users |-> {"u1"}, videos |-> {VideoA, VideoB}, ratings |-> {<<5>>},
     ticks |-> HandleTicks + 1, history |-> MaxHistory]

HandlesInit ==
    /\ videos = BaseAddVideo(BaseAddVideo(<< >>, VideoA), VideoB)
    /\ db_videos = add_video_to_db(add_video_to_db(<< >>, VideoA), VideoB)
    /\ user_profiles = BaseCreateUserProfile(<< >>, "u1", PrefsA)
    /\ db_user_profiles = save_user_profile_to_db(<< >>, "u1", PrefsA, DbStamp(1))
    /\ watch_history = << >>
    /\ liked_videos = << >>
    /\ recommendation_logs = << >>
    /\ clock = 2
    /\ window_start = 0
    /\ lastCall = [op |-> "create_user_profile", user |-> "u1", preferences |-> PrefsA,
                   ok |-> TRUE]
    /\ other = Closed
    /\ pending = [h \in Handles |-> None]

HandlesCall(in) ==
    \/ OpenHandle
    \/ \E h \in Handles, u \in in.users, v \in {w.id : w \in in.videos}, r \in in.ratings :
           WatchInsert(h, u, v, r)
    \/ \E h \in Handles, u \in in.users, v \in {w.id : w \in in.videos} :
           LikeInsert(h, u, v)
    \/ \E h \in Handles : UpdateVideoStats(h)
    \/ \E h \in Handles : TrainWithDbDataThrough(h)

HandlesNext ==
    /\ HandlesCall(HandlesInputs)
    /\ WithinBounds(HandlesInputs)
    /\ \A u \in DOMAIN other.user_profiles' :
           /\ Len(other.user_profiles'[u].watch_history) <= HandlesInputs.history
           /\ Len(other.user_profiles'[u].liked_videos) <= HandlesInputs.history

HandlesSpec == HandlesInit /\ [][HandlesNext]_vars

(***************************************************************************)
(* Serving: get_personalized_recommendations_with_feedback                 *)
(***************************************************************************)
ServeOp == "get_personalized_recommendations_with_feedback"

\* The step is a serve call that returned; the log grew by one row per returned
\* (video, score) pair, in order, carrying the call's user, the video id, the
\* score and the tag rec_type, and the returned list is the ranker's output.
ServeLogged(rec_type) ==
    LET old == Len(recommendation_logs)
        ret == lastCall'.ret
    IN /\ ret = get_recommendations(user_profiles, videos, lastCall'.user, lastCall'.n)
       /\ Len(recommendation_logs') = old + Len(ret)
       /\ SubSeq(recommendation_logs', 1, old) = recommendation_logs
       /\ \A i \in 1..Len(ret) :
              /\ recommendation_logs'[old + i].user_id = lastCall'.user
              /\ recommendation_logs'[old + i].video_id = ret[i][1].id
              /\ recommendation_logs'[old + i].recommendation_score = ret[i][2]
              /\ recommendation_logs'[old + i].recommendation_type = rec_type

\* C1 as stated: a serve call that returns L has logged |L| rows, one per pair of
\* L, each with the call's user, the video id, the score and the type tag the
\* caller gave, and L is the ranker's output.
C1_ServeLogsCallerType ==
    [][(lastCall'.op = ServeOp /\ lastCall'.ok) => ServeLogged(lastCall'.rec_type)]_vars

\* C1 amended: as above, but every row carries the fixed tag "personalized",
\* whatever tag the caller wanted.
C1_ServeLogsPersonalized ==
    [][(lastCall'.op = ServeOp /\ lastCall'.ok) => ServeLogged("personalized")]_vars

\* a serve call has returned two recommendations and the log ends with their rows
C1_Witness ==
    /\ lastCall.op = ServeOp /\ lastCall.ok
    /\ Len(lastCall.ret) = 2
    /\ Len(recommendation_logs) >= 2
    /\ recommendation_logs[Len(recommendation_logs)].video_id = lastCall.ret[2][1].id

\* C2: a serve call is all or nothing: either it returns and every pair of the
\* list is logged, or it raises and the log is as it was before the call.
C2_ServeAtomic ==
    [][lastCall'.op = ServeOp =>
          IF lastCall'.ok THEN ServeLogged("personalized")
          ELSE recommendation_logs' = recommendation_logs]_vars

(***************************************************************************)
(* Likes: like_video and the reload of the like rows                       *)
(***************************************************************************)
NoDuplicates(list) == \A i, j \in 1..Len(list) : list[i] = list[j] => i = j

\* C3: no user's in-memory liked list ever holds a video id twice, and every
\* like_video call that returns has appended exactly one row, with the call's
\* user and video, to the durable liked_videos table.
C3_LikedNoDuplicates ==
    [][/\ \A u \in DOMAIN user_profiles' : NoDuplicates(user_profiles'[u].liked_videos)
       /\ (lastCall'.op = "like_video" /\ lastCall'.ok) =>
              /\ Len(liked_videos') = Len(liked_videos) + 1
              /\ SubSeq(liked_videos', 1, Len(liked_videos)) = liked_videos
              /\ liked_videos'[Len(liked_videos')].user_id = lastCall'.user
              /\ liked_videos'[Len(liked_videos')].video_id = lastCall'.video_id]_vars

(***************************************************************************)
(* Reload: load_videos_from_db, load_user_profiles_from_db and             *)
(* train_with_db_data, which runs one after the other                      *)
(***************************************************************************)
\* the in-memory state the durable tables alone give rise to
FromStorage ==
    [videos |-> load_videos_from_db(db_videos),
     user_profiles |-> load_user_profiles_from_db(<< >>, db_user_profiles,
                                                  watch_history, liked_videos)]

\* C4: when the full reload has returned, the in-memory videos and profiles
\* (preferences, history, likes) are exactly those the durable tables give:
\* nothing that is absent from storage survives.
C4_ReloadReplaces ==
    lastCall.op = "train_with_db_data" =>
        /\ videos = FromStorage.videos
        /\ user_profiles = FromStorage.user_profiles

\* C5: a full reload that directly follows a full reload changes neither the
\* in-memory catalog nor the in-memory profiles.
C5_ReloadIdempotent ==
    [][(lastCall.op = "train_with_db_data" /\ lastCall'.op = "train_with_db_data") =>
           /\ videos' = videos
           /\ user_profiles' = user_profiles]_vars

(***************************************************************************)
(* The catalog: add_video, the counters, update_user_watch_history         *)
(***************************************************************************)
LoadOps == {"load_videos_from_db", "train_with_db_data"}

\* a and b agree on every field of a Video but the embedding
SameRecord(a, b) ==
    /\ a.id = b.id /\ a.title = b.title /\ a.description = b.description
    /\ a.tags = b.tags /\ a.category = b.category /\ a.duration = b.duration
    /\ a.upload_date = b.upload_date /\ a.views = b.views /\ a.likes = b.likes
    /\ a.creator = b.creator

\* C6: a reload of the catalog right after add_video(video) has returned holds
\* exactly one record with the video's id, equal to the video in every field
\* (an empty tags list is an empty list again); and every reload leaves one
\* record per id stored.
C6_VideoRoundTrip ==
    [][lastCall'.op \in LoadOps =>
          /\ \A i, j \in 1..Len(videos') : videos'[i].id = videos'[j].id => i = j
          /\ {videos'[i].id : i \in 1..Len(videos')} =
                 {db_videos[i].id : i \in 1..Len(db_videos)}
          /\ (lastCall.op = "add_video" /\ lastCall.ok) =>
                 \E i \in 1..Len(videos') : SameRecord(videos'[i], lastCall.video)]_vars

\* the catalog was reloaded after the ingestion of two videos, one of them a video without
\* tags; that video came back with an empty tags list
C6_Witness ==
    /\ lastCall.op \in LoadOps
    /\ Len(db_videos) = 2
    /\ \E i \in 1..Len(videos) : SameRecord(videos[i], VideoA) /\ videos[i].tags = << >>
    /\ \E i \in 1..Len(videos) : SameRecord(videos[i], VideoB)

\* C7: the durable views and likes counters of every video id are never
\* negative and no call makes either of them smaller, a second add_video of an
\* id already stored included.
C7_CountersMonotonic ==
    [][\A i \in 1..Len(db_videos') :
          /\ db_videos'[i].views >= 0 /\ db_videos'[i].likes >= 0
          /\ \A j \in 1..Len(db_videos) :
                 db_videos[j].id = db_videos'[i].id =>
                     /\ db_videos'[i].views >= db_videos[j].views
                     /\ db_videos'[i].likes >= db_videos[j].likes]_vars

\* C8: an update_user_watch_history(u, v, rating) call that returns has appended
\* exactly one row (u, v, rating) to watch_history and raised the stored views of
\* v by exactly 1; the likes of v and both counters of every other video are as
\* before.
C8_WatchAppendsAndCounts ==
    [][(lastCall'.op = "update_user_watch_history" /\ lastCall'.ok) =>
          /\ Len(watch_history') = Len(watch_history) + 1
          /\ SubSeq(watch_history', 1, Len(watch_history)) = watch_history
          /\ watch_history'[Len(watch_history')].user_id = lastCall'.user
          /\ watch_history'[Len(watch_history')].video_id = lastCall'.video_id
          /\ watch_history'[Len(watch_history')].rating = lastCall'.rating
          /\ Len(db_videos') = Len(db_videos)
          /\ \A i \in 1..Len(db_videos) :
                 /\ db_videos'[i].id = db_videos[i].id
                 /\ db_videos'[i].likes = db_videos[i].likes
                 /\ db_videos'[i].views =
                        IF db_videos[i].id = lastCall'.video_id
                        THEN db_videos[i].views + 1 ELSE db_videos[i].views]_vars

\* the same user has watched the same stored video twice: two rows, two views,
\* next to another video whose counters are as ingested
C8_Witness ==
    /\ lastCall.op = "update_user_watch_history" /\ lastCall.ok
    /\ Len(watch_history) = 2
    /\ watch_history[1].user_id = watch_history[2].user_id
    /\ watch_history[1].video_id = "v1" /\ watch_history[2].video_id = "v1"
    /\ \E i \in 1..Len(db_videos) : db_videos[i].id = "v1" /\ db_videos[i].views = 2
    /\ \E i \in 1..Len(db_videos) : db_videos[i].id = "v2" /\ db_videos[i].views = 2

(***************************************************************************)
(* Profiles: create_user_profile and save_user_profile_to_db               *)
(***************************************************************************)
UpsertOps == {"create_user_profile", "save_user_profile_to_db"}
ProfileLoadOps == {"load_user_profiles_from_db", "train_with_db_data"}

\* C9: user_profiles holds at most one row per user_id; only an upsert changes
\* the table; and a reload right after an upsert of document d for user u leaves
\* u's in-memory preferences equal to d, keys of earlier documents being gone.
\* A reload at any time gives each stored user the document its one row encodes.
C9_OneDocumentPerUser ==
    [][/\ \A i, j \in 1..Len(db_user_profiles') :
              db_user_profiles'[i].user_id = db_user_profiles'[j].user_id => i = j
       /\ lastCall'.op \notin UpsertOps => db_user_profiles' = db_user_profiles
       /\ (lastCall'.op \in UpsertOps /\ lastCall'.ok) =>
              \E i \in 1..Len(db_user_profiles') :
                  /\ db_user_profiles'[i].user_id = lastCall'.user
                  /\ db_user_profiles'[i].preferences = DumpsDict(lastCall'.preferences)
       /\ lastCall'.op \in ProfileLoadOps =>
              /\ \A i \in 1..Len(db_user_profiles) :
                     \E d \in PrefDocs :
                         /\ db_user_profiles[i].preferences = DumpsDict(d)
                         /\ user_profiles'[db_user_profiles[i].user_id].preferences = d
              /\ (lastCall.op \in UpsertOps /\ lastCall.ok) =>
                     user_profiles'[lastCall.user].preferences = lastCall.preferences]_vars

\* a profile stored with one document and then with the other has been
\* reloaded: one row, and the in-memory preferences are the second document
C9_Witness ==
    /\ lastCall.op \in ProfileLoadOps
    /\ Len(db_user_profiles) = 1
    /\ db_user_profiles[1].updated_at >= DbStamp(2)
    /\ "u1" \in DOMAIN user_profiles
    /\ user_profiles["u1"].preferences = PrefsB

\* the watch entries of a profile as (video, rating) pairs, and its liked set
HistoryOf(profile) ==
    Map(profile.watch_history,
        [e \in Range(profile.watch_history) |-> <<e.video_id, e.rating>>])
LikedOf(profile) == Range(profile.liked_videos)

HasProfileRow(u) == \E i \in 1..Len(db_user_profiles) : db_user_profiles[i].user_id = u

\* C10: create_user_profile for a user who has a profile already changes no row
\* of watch_history or liked_videos and no video counter; the user's in-memory
\* history and liked set are as before the call, and a reload after the call
\* gives the history and liked set that a reload before the call gave.
C10_UpsertKeepsHistory ==
    [][(/\ lastCall'.op = "create_user_profile" /\ lastCall'.ok
        /\ HasProfileRow(lastCall'.user)
        /\ lastCall'.user \in DOMAIN user_profiles) =>
           LET u == lastCall'.user
               before == load_user_profiles_from_db(user_profiles, db_user_profiles,
                                                    watch_history, liked_videos)
               after == load_user_profiles_from_db(user_profiles', db_user_profiles',
                                                   watch_history', liked_videos')
           IN /\ watch_history' = watch_history
              /\ liked_videos' = liked_videos
              /\ db_videos' = db_videos
              /\ user_profiles'[u].watch_history = user_profiles[u].watch_history
              /\ user_profiles'[u].liked_videos = user_profiles[u].liked_videos
              /\ HistoryOf(after[u]) = HistoryOf(before[u])
              /\ LikedOf(after[u]) = LikedOf(before[u])]_vars

\* a user with a watch event and a like has been given a new preferences
\* document; history and like are still in memory
C10_Witness ==
    /\ lastCall.op = "create_user_profile" /\ lastCall.ok
    /\ Len(watch_history) >= 1 /\ Len(liked_videos) >= 1
    /\ db_user_profiles[1].updated_at >= DbStamp(4)
    /\ "u1" \in DOMAIN user_profiles
    /\ Len(user_profiles["u1"].watch_history) >= 1
    /\ Len(user_profiles["u1"].liked_videos) >= 1

(***************************************************************************)
(* The effectiveness report: get_recommendation_effectiveness              *)
(***************************************************************************)
EffectOp == "get_recommendation_effectiveness"

\* the step is a call of the report (and not days going by after one)
Reported == lastCall'.op = EffectOp /\ window_start' = window_start

\* the rows of recommendation_logs that are in the window and, when a user is
\* given, were served to that user
InScope(user_id) ==
    {i \in 1..Len(recommendation_logs) :
        /\ recommendation_logs[i].timestamp >= window_start
        /\ Truthy(user_id) => recommendation_logs[i].user_id = user_id[1]}

\* the user of row i of recommendation_logs has a watch row for its video
Watches(i) ==
    {j \in 1..Len(watch_history) :
        /\ watch_history[j].user_id = recommendation_logs[i].user_id
        /\ watch_history[j].video_id = recommendation_logs[i].video_id}

C12_ClickedWithoutRating ==
    [][Reported =>
          LET clicked == {i \in InScope(lastCall'.user) : Watches(i) # {}}
              rated == {<<i, j>> \in InScope(lastCall'.user) \X (1..Len(watch_history)) :
                           j \in Watches(i) /\ watch_history[j].rating # None}
          IN /\ lastCall'.ret.clicked_recommendations >= Cardinality(clicked)
             /\ rated # {} => lastCall'.ret.avg_rating[2] = Cardinality(rated)]_vars

\* C13: total is the number of recommendation events in scope and clicked the
\* number of those whose pair has at least one watch row, each event counted
\* once however many watch rows match; so clicked <= total, and the rate is
\* clicked / total (0 when total is 0), between 0 and 1.
C13_CountsEventsOnce ==
    [][Reported =>
          LET scope == InScope(lastCall'.user)
              clicked == {i \in scope : Watches(i) # {}}
              ret == lastCall'.ret
          IN /\ ret.total_recommendations = Cardinality(scope)
             /\ ret.clicked_recommendations = Cardinality(clicked)
             /\ ret.clicked_recommendations <= ret.total_recommendations
             /\ ret.click_through_rate[2] > 0
             /\ ret.click_through_rate[1] * Max(1, Cardinality(scope)) =
                    Cardinality(clicked) * ret.click_through_rate[2]
             /\ 0 <= ret.click_through_rate[1]
             /\ ret.click_through_rate[1] <= ret.click_through_rate[2]]_vars

(***************************************************************************)
(* Ranking: get_recommendations, called directly or by the serving method  *)
(***************************************************************************)
RankOps == {"get_recommendations", ServeOp}

\* the (video id, score) pairs of a returned list, in order
Picks(ret) == Map(ret, [x \in Range(ret) |-> <<x[1].id, x[2]>>])

\* C14: a list returned for user u by get_recommendations or by the serving
\* method holds no video for which watch_history has a row of u, whatever calls
\* came before (also when the row was written while u had no profile).
C14_NeverRecommendsWatched ==
    [][(lastCall'.op \in RankOps /\ lastCall'.ok) =>
          \A i \in 1..Len(lastCall'.ret) :
              ~ \E j \in 1..Len(watch_history) :
                    /\ watch_history[j].user_id = lastCall'.user
                    /\ watch_history[j].video_id = lastCall'.ret[i][1].id]_vars

\* C15: a list returned by get_recommendations(u, n) or by the serving method
\* has at most n pairs, no video twice, and scores that never increase along
\* the list; the serving method has logged as many rows as it returned.
C15_AtMostLimitOrdered ==
    [][(lastCall'.op \in RankOps /\ lastCall'.ok) =>
          LET ret == lastCall'.ret
          IN /\ Len(ret) <= lastCall'.n
             /\ \A i, j \in 1..Len(ret) : ret[i][1].id = ret[j][1].id => i = j
             /\ \A i \in 1..(Len(ret) - 1) : ret[i][2] >= ret[i + 1][2]
             /\ lastCall'.op = ServeOp =>
                    Len(recommendation_logs') = Len(recommendation_logs) + Len(ret)]_vars

\* the ranker was asked for two videos on behalf of a user with a rated
\* history and returned two, the more similar one first
C15_Witness ==
    /\ lastCall.op = "get_recommendations"
    /\ lastCall.n = 2 /\ Len(lastCall.ret) = 2
    /\ lastCall.ret[1][2] > lastCall.ret[2][2]
    /\ lastCall.ret[2][2] > 0

\* C16: the ranker is deterministic.  Two calls in a row for the same user and
\* limit return the same videos with the same scores in the same order; within
\* a list, equal scores are ordered by more views first and then by id; and
\* after a full reload that follows a call, the same call gives what it gave.
C16_RankingDeterministic ==
    [][/\ (/\ lastCall.op = "get_recommendations" /\ lastCall'.op = "get_recommendations"
           /\ lastCall'.user = lastCall.user /\ lastCall'.n = lastCall.n) =>
              Picks(lastCall'.ret) = Picks(lastCall.ret)
       /\ lastCall'.op = "get_recommendations" =>
              \A i \in 1..(Len(lastCall'.ret) - 1) :
                  LET a == lastCall'.ret[i]
                      b == lastCall'.ret[i + 1]
                  IN a[2] = b[2] =>
                         \/ a[1].views > b[1].views
                         \/ a[1].views = b[1].views /\ IdRank(a[1].id) < IdRank(b[1].id)
       /\ (lastCall.op = "get_recommendations" /\ lastCall'.op = "train_with_db_data") =>
              Picks(get_recommendations(user_profiles', videos', lastCall.user, lastCall.n))
                  = Picks(lastCall.ret)]_vars

(***************************************************************************)
(* The overlap analysis: analyze_user_behavior_patterns                    *)
(***************************************************************************)
AnalyzeOp == "analyze_user_behavior_patterns"

\* the ids of the videos u has a watch row for, rated or not
WatchedIds(u) ==
    {watch_history[j].video_id : j \in {k \in 1..Len(watch_history) :
                                           watch_history[k].user_id = u}}

HasRatedWatch(u) ==
    \E j \in 1..Len(watch_history) :
        watch_history[j].user_id = u /\ watch_history[j].rating # None

\* the ids u rated at 4.0 or above in some watch row
RatedHigh(u) ==
    {watch_history[j].video_id : j \in {k \in 1..Len(watch_history) :
                                           /\ watch_history[k].user_id = u
                                           /\ watch_history[k].rating # None
                                           /\ watch_history[k].rating[1] >= 4}}

\* C17: every pair of users who each have a rated watch row and whose sets of
\* watched videos (rated or not) intersect is reported, with that intersection
\* as its common videos.
C17_CommonIsWatchedIntersection ==
    [][lastCall'.op = AnalyzeOp =>
          \A a, b \in {"u1", "u2"} :
              (/\ a # b /\ HasRatedWatch(a) /\ HasRatedWatch(b)
               /\ WatchedIds(a) \cap WatchedIds(b) # {}) =>
                  \E i \in 1..Len(lastCall'.ret) :
                      /\ {lastCall'.ret[i].user1, lastCall'.ret[i].user2} = {a, b}
                      /\ lastCall'.ret[i].common_videos =
                             WatchedIds(a) \cap WatchedIds(b)]_vars

\* C18: for every reported pair, the videos transferable from the first user to
\* the second are exactly those the first rated 4.0 or above and the second has
\* no watch row for, rated or not.
C18_TransferableUnwatched ==
    [][lastCall'.op = AnalyzeOp =>
          \A i \in 1..Len(lastCall'.ret) :
              Range(lastCall'.ret[i].potential_recommendations) =
                  RatedHigh(lastCall'.ret[i].user1) \ WatchedIds(lastCall'.ret[i].user2)]_vars

(***************************************************************************)
(* Users without a profile, and calls that raise                           *)
(***************************************************************************)
\* C19: like_video for a user who has no profile returns, appends the like row,
\* leaves the user with an in-memory entry whose liked list holds the video,
\* and writes no user_profiles row; and no call other than an upsert of a
\* profile changes the user_profiles table.
C19_LikeCreatesEntryLazily ==
    [][/\ (/\ lastCall'.op = "like_video"
           /\ lastCall'.user \notin DOMAIN user_profiles
           /\ ~ HasProfileRow(lastCall'.user)) =>
              /\ lastCall'.ok
              /\ Len(liked_videos') = Len(liked_videos) + 1
              /\ liked_videos'[Len(liked_videos')].user_id = lastCall'.user
              /\ liked_videos'[Len(liked_videos')].video_id = lastCall'.video_id
              /\ lastCall'.user \in DOMAIN user_profiles'
              /\ lastCall'.video_id \in Range(user_profiles'[lastCall'.user].liked_videos)
              /\ db_user_profiles' = db_user_profiles
       /\ lastCall'.op \notin UpsertOps => db_user_profiles' = db_user_profiles]_vars

MutatingOps ==
    {"add_video", "create_user_profile", "update_user_watch_history", "like_video",
     ServeOp}

\* C20: a mutating call either returns, and then every durable write of it is
\* committed, or raises, and then no durable table and no in-memory state has
\* changed.
C20_FailureLeavesNoTrace ==
    [][lastCall'.op \in MutatingOps =>
          IF lastCall'.ok
          THEN /\ lastCall'.op = "add_video" =>
                      \E i \in 1..Len(db_videos') : db_videos'[i] = VideoRow(lastCall'.video)
               /\ lastCall'.op = "create_user_profile" =>
                      \E i \in 1..Len(db_user_profiles') :
                          /\ db_user_profiles'[i].user_id = lastCall'.user
                          /\ db_user_profiles'[i].preferences =
                                 DumpsDict(lastCall'.preferences)
               /\ lastCall'.op = "update_user_watch_history" =>
                      /\ Len(watch_history') = Len(watch_history) + 1
                      /\ \A i \in 1..Len(db_videos) :
                             db_videos[i].id = lastCall'.video_id =>
                                 db_videos'[i].views = db_videos[i].views + 1
               /\ lastCall'.op = "like_video" =>
                      /\ Len(liked_videos') = Len(liked_videos) + 1
                      /\ \A i \in 1..Len(db_videos) :
                             db_videos[i].id = lastCall'.video_id =>
                                 db_videos'[i].likes = db_videos[i].likes + 1
               /\ lastCall'.op = ServeOp =>
                      Len(recommendation_logs') =
                          Len(recommendation_logs) + Len(lastCall'.ret)
          ELSE /\ UNCHANGED <<db_videos, db_user_profiles, watch_history, liked_videos,
                              recommendation_logs>>
               /\ UNCHANGED <<videos, user_profiles>>]_vars

(***************************************************************************)
(* The three interaction logs                                              *)
(***************************************************************************)
\* new holds every row of old, unchanged and at the same place
Extends(old, new) == Len(old) <= Len(new) /\ SubSeq(new, 1, Len(old)) = old

\* C21: watch_history, liked_videos and recommendation_logs are append-only:
\* every step leaves each row of the three logs in place and unchanged, and
\* adds rows at the end only; so a row present in one state is present in
\* every later state.  Re-ingestion, profile upserts and reloads included.
C21_LogsAppendOnly ==
    [][/\ Extends(watch_history, watch_history')
       /\ Extends(liked_videos, liked_videos')
       /\ Extends(recommendation_logs, recommendation_logs')]_vars

\* a full reload has run while each of the three logs holds a row and the
\* user has a stored profile
C21_Witness ==
    /\ lastCall.op = "train_with_db_data"
    /\ Len(watch_history) >= 1 /\ Len(liked_videos) >= 1
    /\ Len(recommendation_logs) >= 1
    /\ HasProfileRow("u1")
    /\ Len(db_videos) = 1

(***************************************************************************)
(* The effectiveness report and the user it is asked for                   *)
(***************************************************************************)
\* the rows of recommendation_logs in the window, of all users
InWindow ==
    {i \in 1..Len(recommendation_logs) : recommendation_logs[i].timestamp >= window_start}

\* the pairs of a row i among rows and a watch row j of the same user and video
OwnWatches(rows) ==
    {<<i, j>> \in rows \X (1..Len(watch_history)) : j \in Watches(i)}

\* C22: a report asked for user id u counts only recommendation events served
\* to u (none served to u: total and clicked are 0; never more rows than u's
\* events and u's own watch rows of their videos give), and counts a click only
\* where u has a watch row for the event's video, a watch by another user
\* making no click; a report asked for no user covers the events of all users.
C22_OnlyOwnEvents ==
    [][Reported =>
          LET ret == lastCall'.ret
              own == IF lastCall'.user = None THEN InWindow
                     ELSE {i \in InWindow :
                              recommendation_logs[i].user_id = lastCall'.user[1]}
              unwatched == {i \in own : Watches(i) = {}}
          IN /\ ret.total_recommendations >= Cardinality(own)
             /\ ret.total_recommendations <=
                    Cardinality(unwatched) + Cardinality(OwnWatches(own))
             /\ ret.clicked_recommendations <= Cardinality(OwnWatches(own))]_vars

(***************************************************************************)
(* The reload of history and likes: load_user_profiles_from_db             *)
(***************************************************************************)
RECURSIVE Reverse(_)
Reverse(s) == IF s = << >> THEN << >> ELSE Reverse(Tail(s)) \o <<Head(s)>>

\* the watch events of u in the durable log as (video, rating) pairs, the most
\* recent first, and the ids of the videos u has a like event for
DurableHistory(u) ==
    LET rows == SelectSeq(watch_history, LAMBDA w : w.user_id = u)
    IN Reverse(Map(rows, [w \in Range(rows) |-> <<w.video_id, w.rating>>]))
DurableLiked(u) ==
    {liked_videos[j].video_id : j \in {k \in 1..Len(liked_videos) :
                                          liked_videos[k].user_id = u}}

\* the user ids with a watch or like event
EventUsers ==
    {watch_history[j].user_id : j \in 1..Len(watch_history)}
        \cup {liked_videos[j].user_id : j \in 1..Len(liked_videos)}

\* C23: when a reload of the profiles has run, every user with a profile row
\* has in memory one history entry per durable watch event of theirs (video id
\* and rating, null included), the most recent first, and a liked collection
\* holding the video ids of their like events; for a user with events but no
\* profile row the reload has added nothing in memory; and the reload returns.
C23_ReloadRebuildsHistory ==
    [][lastCall'.op \in ProfileLoadOps =>
          /\ lastCall'.ok
          /\ \A i \in 1..Len(db_user_profiles) :
                 LET u == db_user_profiles[i].user_id
                 IN /\ u \in DOMAIN user_profiles'
                    /\ HistoryOf(user_profiles'[u]) = DurableHistory(u)
                    /\ LikedOf(user_profiles'[u]) = DurableLiked(u)
          /\ \A u \in EventUsers :
                 ~ HasProfileRow(u) =>
                     IF u \in DOMAIN user_profiles
                     THEN u \in DOMAIN user_profiles' /\ user_profiles'[u] = user_profiles[u]
                     ELSE u \notin DOMAIN user_profiles']_vars

(***************************************************************************)
(* The counters and the events they count                                  *)
(***************************************************************************)
\* the Video the callers ingest under an id
Ingested(id) == CHOOSE w \in {VideoA, VideoB, VideoC} : w.id = id

\* the number of rows of a log that name video id
EventsFor(log, id) == Len(SelectSeq(log, LAMBDA e : e.video_id = id))

\* C24: in every state, every stored video has views equal to the views it was
\* ingested with plus the number of watch events logged for its id, and likes
\* equal to the likes it was ingested with plus the number of like events for
\* its id, whether the events came before or after the (re-)ingestion.
C24_CountersMatchEvents ==
    \A i \in 1..Len(db_videos) :
        /\ db_videos[i].views =
               Ingested(db_videos[i].id).views + EventsFor(watch_history, db_videos[i].id)
        /\ db_videos[i].likes =
               Ingested(db_videos[i].id).likes + EventsFor(liked_videos, db_videos[i].id)

(***************************************************************************)
(* Two handles on one file                                                 *)
(***************************************************************************)
\* the number of handles whose call op on video id has committed its INSERT
\* and not yet run its UPDATE
InFlight(op, id) ==
    Cardinality({h \in Handles : /\ pending[h] # None
                                 /\ pending[h][1].op = op
                                 /\ pending[h][1].video_id = id})

\* C25: however the watch and like calls of two handles on one file interleave,
\* no increment and no row is lost: every stored video has views equal to its
\* ingested views plus the watch rows logged for it, less the calls still
\* before their UPDATE, and likes likewise, so that with no call in flight the
\* counters have grown by the number of calls made through both handles; every
\* step keeps the rows of the three logs; and the constructor of the second
\* handle leaves every row of every table as it was.
C25_NoLostUpdate ==
    /\ [](\A i \in 1..Len(db_videos) :
             LET id == db_videos[i].id
             IN /\ db_videos[i].views =
                       Ingested(id).views + EventsFor(watch_history, id)
                           - InFlight("update_user_watch_history", id)
                /\ db_videos[i].likes =
                       Ingested(id).likes + EventsFor(liked_videos, id)
                           - InFlight("like_video", id))
    /\ [][/\ Extends(watch_history, watch_history')
           /\ Extends(liked_videos, liked_videos')
           /\ Extends(recommendation_logs, recommendation_logs')
           /\ Len(watch_history') + Len(liked_videos')
                  <= Len(watch_history) + Len(liked_videos) + 1
           /\ (other'.open /\ ~ other.open) =>
                  UNCHANGED <<db_videos, db_user_profiles, watch_history, liked_videos,
                              recommendation_logs>>]_vars

\* a like through the second handle has ended whose INSERT came before the
\* INSERT of a watch of the same video through the first handle; no call is in
\* flight, and the video has both increments
C25_Witness ==
    /\ lastCall.op = "like_video" /\ lastCall.handle = 2 /\ lastCall.video_id = "v2"
    /\ \A h \in Handles : pending[h] = None
    /\ \E j \in 1..Len(watch_history) :
           /\ watch_history[j].video_id = "v2"
           /\ watch_history[j].timestamp > lastCall.timestamp
    /\ \E i \in 1..Len(db_videos) :
           /\ db_videos[i].id = "v2"
           /\ db_videos[i].views = VideoB.views + EventsFor(watch_history, "v2")
           /\ db_videos[i].likes = VideoB.likes + EventsFor(liked_videos, "v2")
           /\ db_videos[i].views > VideoB.views

====
